---------------------------- MODULE Spec2Model ----------------------------
(***************************************************************************)
(* Model of tools/faketty.c: a preloaded library whose replacement         *)
(* isatty / tcgetattr / tcsetattr / ioctl answer terminal queries from     *)
(* fixed data.                                                             *)
(*                                                                         *)
(* Every responder is modelled statement by statement: a thread's frame    *)
(* holds the arguments, the locals and a program counter named after the   *)
(* source line it is about to execute ("L55" is faketty.c line 55).        *)
(* Step executes one statement.  Two specifications use it:                *)
(*   Spec    one host thread; each call runs its handler to completion in  *)
(*           one action (Run iterates Step);                               *)
(*   SpecMT  several threads; one action executes one statement of one     *)
(*           thread, so calls interleave at statement level.               *)
(***************************************************************************)
EXTENDS Integers, Sequences, FiniteSets, TLC

(* ------------------------------ bounds --------------------------------- *)
\* calls the host makes in one run of the sequential specification
MaxCalls == 4
\* calls the threads make, together, in one run of the threaded specification
MaxCallsMT == 2

\* the threads of the host process: two, since the responders could only
\* interfere pairwise
Threads == {1, 2}
\* the host thread of the sequential specification: the first thread
Main == CHOOSE t \in Threads : \A u \in Threads : t <= u

(* ------------------------- values and records -------------------------- *)
\* the null pointer; a non-null pointer is the id of the thread that owns
\* the buffer it points to (every thread passes its own buffers)
NULL == 0

\* descriptor values the host passes: negative, zero, positive
Fds == {-1, 0, 7}

\* descriptor values the threads of the threaded specification pass
FdsMT == {-1, 7}

\* c_cc slots: the eight the shim assigns, and three it leaves to memset
CcSlots ==
    {"VINTR", "VQUIT", "VERASE", "VKILL", "VEOF", "VSTART", "VSTOP", "VSUSP",
     "VMIN", "VTIME", "VEOL"}

\* what the caller's struct termios holds before its first tcgetattr
JunkTermios ==
    [c_iflag |-> {"IGNBRK", "ICRNL"}, c_oflag |-> {"OCRNL"},
     c_cflag |-> {"CS5", "PARENB"}, c_lflag |-> {"NOFLSH", "ECHO"},
     c_cc |-> [s \in CcSlots |-> 255], c_ispeed |-> 9600, c_ospeed |-> 9600]

\* the raw-mode record a host passes to tcsetattr
RawTermios ==
    [c_iflag |-> {}, c_oflag |-> {}, c_cflag |-> {"CS8", "CREAD"},
     c_lflag |-> {},
     c_cc |-> [s \in CcSlots |-> IF s = "VMIN" THEN 1 ELSE 0],
     c_ispeed |-> 38400, c_ospeed |-> 38400]

\* what the caller's struct winsize holds before its first query
JunkWinsize == [ws_row |-> 65535, ws_col |-> 65535, ws_xpixel |-> 65535, ws_ypixel |-> 65535]

\* the geometry a host passes with a set-window-size request
AltWinsize == [ws_row |-> 50, ws_col |-> 132, ws_xpixel |-> 640, ws_ypixel |-> 480]

\* ioctl request codes the host uses
Requests == {"TIOCGWINSZ", "TIOCSWINSZ", "FIONREAD"}

\* tcsetattr action selectors
OptionalActions == {"TCSANOW", "TCSAFLUSH"}

\* entry points the host calls; write is one the library does not define
EntryPoints == {"isatty", "tcgetattr", "tcsetattr", "ioctl", "write"}

VARIABLES
    build,      \* "verbose" (faketty.c) or "silent" (the variant without tracing)
    loaded,     \* the loader has mapped the library
    table,      \* the interpose entries the loader has installed
    installs,   \* how many times the table was installed
    err,        \* what was written to descriptor 2, one element per write
    frame,      \* frame[t]: thread t's current (or last) call
    tbuf,       \* tbuf[t]: thread t's struct termios
    wbuf,       \* wbuf[t]: thread t's struct winsize
    calls,      \* calls made so far
    queries     \* calls made so far that the loader bound to fake_isatty

vars == <<build, loaded, table, installs, err, frame, tbuf, wbuf, calls, queries>>

(* --------------------------- interposition ----------------------------- *)
\* the table with the pair written in the wrong order
interposers_swapped == {[new_func |-> "isatty", orig_func |-> "fake_isatty"]}

\* the table with the isatty entry forgotten
interposers_empty == {}

\* faketty.c 43-46: the __interpose section, one (replacement, original) pair
interposers == {[new_func |-> "fake_isatty", orig_func |-> "isatty"]}

\* faketty.c 30, 49, 87, 92: the functions the library defines with external
\* linkage
Exported == {"fake_isatty", "tcgetattr", "tcsetattr", "ioctl"}

\* Where a call of entry point sym lands.  Before the library is mapped every
\* call reaches libc.  Afterwards an installed interpose entry redirects its
\* original to its replacement, and a libc name the preloaded library itself
\* exports binds to the library's definition; anything else stays in libc.
Resolve(sym, ld, tbl) ==
    IF ~ld THEN [image |-> "libc", func |-> sym]
    ELSE IF \E e \in tbl : e.orig_func = sym
         THEN [image |-> "faketty",
               func |-> (CHOOSE e \in tbl : e.orig_func = sym).new_func]
    ELSE IF sym \in Exported THEN [image |-> "faketty", func |-> sym]
    ELSE [image |-> "libc", func |-> sym]

(* ------------------------------- frames -------------------------------- *)
\* a thread that has made no call yet
IdleFrame ==
    [pc |-> "idle", sym |-> "none", image |-> "none", func |-> "none",
     fd |-> 0, p |-> NULL, request |-> "none", optional_actions |-> "none",
     ws |-> NULL, vaRead |-> FALSE, ret |-> 0, errno |-> "unset",
     afterLoad |-> FALSE, overlapped |-> FALSE,
     pre_t |-> JunkTermios, pre_w |-> JunkWinsize]

\* the part of the state a responder can touch
State(fr, tb, wb, e) == [frame |-> fr, tbuf |-> tb, wbuf |-> wb, err |-> e]

Goto(t, S, l) == [S EXCEPT !.frame[t].pc = l]

\* return v;
Return(t, S, v) == [S EXCEPT !.frame[t].ret = v, !.frame[t].pc = "done"]

\* the element after l in the statement list seq
After(seq, l) == seq[(CHOOSE i \in 1 .. Len(seq) : seq[i] = l) + 1]

(* ---------------------------- diagnostics ------------------------------ *)
LoadedMsg == "FAKETTY: Library loaded!\n"
IsattyMsg == "FAKETTY: isatty() called!\n"

\* write(2, text, n): one write of the first n bytes of text to descriptor 2
write2(e, text, n) == Append(e, [text |-> text, n |-> n])

\* faketty.c 24-27: the constructor, run by the loader when it maps the library
faketty_init(e) == write2(e, LoadedMsg, 25)

\* the variant without tracing: the constructor writes nothing
faketty_init_silent(e) == e

(* ----------------------------- fake_isatty ----------------------------- *)
\* an isatty that looks at its descriptor
fake_isatty_checks_fd(t, S) ==
    LET f == S.frame[t] IN
    CASE f.pc = "L31" -> Goto(t, [S EXCEPT !.err = write2(@, IsattyMsg, Len(IsattyMsg))], "L33")
      [] f.pc = "L33" -> Return(t, S, IF f.fd >= 0 THEN 1 ELSE 0)

\* an isatty that forgets its trace line
fake_isatty_no_trace(t, S) ==
    LET f == S.frame[t] IN
    CASE f.pc = "L31" -> Goto(t, S, "L33")
      [] f.pc = "L33" -> Return(t, S, 1)

\* faketty.c 30-34
fake_isatty_step(t, S) ==
    LET f == S.frame[t] IN
    CASE f.pc = "L31" -> \* char msg[] = ...; write(2, msg, sizeof(msg) - 1);
                         Goto(t, [S EXCEPT !.err = write2(@, IsattyMsg, Len(IsattyMsg))], "L33")
      [] f.pc = "L33" -> \* return 1;
                         Return(t, S, 1)

\* the first statement of fake_isatty: the variant without tracing has no
\* write and starts at the return
fake_isatty_entry == "L31"
fake_isatty_entry_silent == "L33"

(* ------------------------------ tcgetattr ------------------------------ *)
\* B38400 of <termios.h>
B38400 == 38400

\* memset(termios_p, 0, sizeof(struct termios))
ZeroTermios ==
    [c_iflag |-> {}, c_oflag |-> {}, c_cflag |-> {}, c_lflag |-> {},
     c_cc |-> [s \in CcSlots |-> 0], c_ispeed |-> 0, c_ospeed |-> 0]

cfsetispeed(b, speed) == [b EXCEPT !.c_ispeed = speed]
cfsetospeed(b, speed) == [b EXCEPT !.c_ospeed = speed]

\* the statements of tcgetattr after the null check, in order
TcgetattrLines ==
    <<"L55", "L58", "L61", "L64", "L67", "L70", "L71", "L72", "L73", "L74",
      "L75", "L76", "L77", "L80", "L81", "L83">>

\* tcgetattr without the memset
tcgetattr_stmt_no_memset(l, b) ==
    CASE l = "L55" -> b
      [] l = "L58" -> [b EXCEPT !.c_iflag = {"ICRNL", "IXON"}]
      [] l = "L61" -> [b EXCEPT !.c_oflag = {"OPOST", "ONLCR"}]
      [] l = "L64" -> [b EXCEPT !.c_cflag = {"CS8", "CREAD", "CLOCAL"}]
      [] l = "L67" -> [b EXCEPT !.c_lflag = {"ISIG", "ICANON", "ECHO", "ECHOE", "ECHOK"}]
      [] l = "L70" -> [b EXCEPT !.c_cc["VINTR"] = 3]
      [] l = "L71" -> [b EXCEPT !.c_cc["VQUIT"] = 28]
      [] l = "L72" -> [b EXCEPT !.c_cc["VERASE"] = 127]
      [] l = "L73" -> [b EXCEPT !.c_cc["VKILL"] = 21]
      [] l = "L74" -> [b EXCEPT !.c_cc["VEOF"] = 4]
      [] l = "L75" -> [b EXCEPT !.c_cc["VSTART"] = 17]
      [] l = "L76" -> [b EXCEPT !.c_cc["VSTOP"] = 19]
      [] l = "L77" -> [b EXCEPT !.c_cc["VSUSP"] = 26]
      [] l = "L80" -> cfsetispeed(b, B38400)
      [] l = "L81" -> cfsetospeed(b, B38400)

\* faketty.c 55-81: what the statement at line l does to *termios_p
tcgetattr_stmt(l, b) ==
    CASE l = "L55" -> ZeroTermios
      [] l = "L58" -> [b EXCEPT !.c_iflag = {"ICRNL", "IXON"}]
      [] l = "L61" -> [b EXCEPT !.c_oflag = {"OPOST", "ONLCR"}]
      [] l = "L64" -> [b EXCEPT !.c_cflag = {"CS8", "CREAD", "CLOCAL"}]
      [] l = "L67" -> [b EXCEPT !.c_lflag = {"ISIG", "ICANON", "ECHO", "ECHOE", "ECHOK"}]
      [] l = "L70" -> [b EXCEPT !.c_cc["VINTR"] = 3]
      [] l = "L71" -> [b EXCEPT !.c_cc["VQUIT"] = 28]
      [] l = "L72" -> [b EXCEPT !.c_cc["VERASE"] = 127]
      [] l = "L73" -> [b EXCEPT !.c_cc["VKILL"] = 21]
      [] l = "L74" -> [b EXCEPT !.c_cc["VEOF"] = 4]
      [] l = "L75" -> [b EXCEPT !.c_cc["VSTART"] = 17]
      [] l = "L76" -> [b EXCEPT !.c_cc["VSTOP"] = 19]
      [] l = "L77" -> [b EXCEPT !.c_cc["VSUSP"] = 26]
      [] l = "L80" -> cfsetispeed(b, B38400)
      [] l = "L81" -> cfsetospeed(b, B38400)

\* faketty.c 49-84
tcgetattr_step(t, S) ==
    LET f == S.frame[t] IN
    CASE f.pc = "L50" -> \* if (termios_p == NULL) return -1;
                         IF f.p = NULL THEN Return(t, S, -1) ELSE Goto(t, S, "L55")
      [] f.pc = "L83" -> \* return 0;
                         Return(t, S, 0)
      [] OTHER -> Goto(t, [S EXCEPT !.tbuf[f.p] = tcgetattr_stmt(f.pc, @)],
                       After(TcgetattrLines, f.pc))

(* ------------------------------ tcsetattr ------------------------------ *)
\* a tcsetattr that rejects a null request
tcsetattr_rejects_null(t, S) ==
    Return(t, S, IF S.frame[t].p = NULL THEN -1 ELSE 0)

\* faketty.c 87-89: return 0;
tcsetattr_step(t, S) == Return(t, S, 0)

(* -------------------------------- ioctl -------------------------------- *)
\* the statements of ioctl that write through ws, then the return after them
IoctlLines == <<"L100", "L101", "L102", "L103", "L104">>

\* ioctl without the assignment to ws_row
ioctl_stmt_no_row(l, w) ==
    CASE l = "L100" -> w
      [] l = "L101" -> [w EXCEPT !.ws_col = 80]
      [] l = "L102" -> [w EXCEPT !.ws_xpixel = 0]
      [] l = "L103" -> [w EXCEPT !.ws_ypixel = 0]

\* faketty.c 100-103: what the statement at line l does to *ws
ioctl_stmt(l, w) ==
    CASE l = "L100" -> [w EXCEPT !.ws_row = 24]
      [] l = "L101" -> [w EXCEPT !.ws_col = 80]
      [] l = "L102" -> [w EXCEPT !.ws_xpixel = 0]
      [] l = "L103" -> [w EXCEPT !.ws_ypixel = 0]

\* ws kept in a static: one pointer for all threads
ioctl_va_arg_static(t, fr, arg) ==
    [u \in DOMAIN fr |-> [fr[u] EXCEPT !.ws = arg, !.vaRead = IF u = t THEN TRUE ELSE @]]

\* faketty.c 98: struct winsize *ws = va_arg(args, struct winsize*);
\* ws is a local of the calling thread
ioctl_va_arg(t, fr, arg) == [fr EXCEPT ![t].ws = arg, ![t].vaRead = TRUE]

\* an ioctl that fails the requests it does not know
ioctl_request_strict(req) ==
    IF req = "TIOCGWINSZ" THEN "L98" ELSE "fail"

\* faketty.c 97: if (request == TIOCGWINSZ) { ... } ; otherwise on to line 109
ioctl_request(req) == IF req = "TIOCGWINSZ" THEN "L98" ELSE "L109"

\* faketty.c 92-112
ioctl_step(t, S) ==
    LET f == S.frame[t] IN
    CASE f.pc = "L97"  -> Goto(t, S, ioctl_request(f.request))
      [] f.pc = "L98"  -> Goto(t, [S EXCEPT !.frame = ioctl_va_arg(t, @, f.p)], "L99")
      [] f.pc = "L99"  -> \* if (ws) { ... }
                          IF f.ws # NULL THEN Goto(t, S, "L100") ELSE Goto(t, S, "L109")
      [] f.pc = "L104" -> \* va_end(args); return 0;
                          Return(t, S, 0)
      [] f.pc = "L109" -> \* va_end(args); return 0;
                          Return(t, S, 0)
      [] f.pc = "fail" -> Return(t, S, -1)
      [] OTHER -> Goto(t, [S EXCEPT !.wbuf[f.ws] = ioctl_stmt(f.pc, @)],
                       After(IoctlLines, f.pc))

(* -------------------------------- libc --------------------------------- *)
\* faketty.c 19-21, 45: the original entry points, which a call that is not
\* redirected reaches.  The process has no terminal: isatty answers 0, the
\* others fail, each with ENOTTY, and none writes a buffer.
libc_step(t, S) ==
    LET f == S.frame[t] IN
    [S EXCEPT !.frame[t].ret = IF f.func = "isatty" THEN 0 ELSE -1,
              !.frame[t].errno = "ENOTTY",
              !.frame[t].pc = "done"]

(* ------------------------------ execution ------------------------------ *)
\* one statement of thread t's current call
Step(t, S) ==
    LET f == S.frame[t] IN
    CASE f.image = "libc"       -> libc_step(t, S)
      [] f.func = "fake_isatty" -> fake_isatty_step(t, S)
      [] f.func = "tcgetattr"   -> tcgetattr_step(t, S)
      [] f.func = "tcsetattr"   -> tcsetattr_step(t, S)
      [] f.func = "ioctl"       -> ioctl_step(t, S)

\* thread t's current call run to its return with no other thread running
RECURSIVE Run(_, _)
Run(t, S) == IF S.frame[t].pc = "done" THEN S ELSE Run(t, Step(t, S))

\* the first statement of func in the given build
Entry(func, bld) ==
    CASE func = "fake_isatty" ->
             IF bld = "verbose" THEN fake_isatty_entry ELSE fake_isatty_entry_silent
      [] func = "tcgetattr" -> "L50"
      [] func = "tcsetattr" -> "L88"
      [] func = "ioctl"     -> "L97"

\* The host's call site.  A host that asks for raw mode passes a raw-mode
\* record in its own struct termios; one that sets the window size passes
\* another geometry in its own struct winsize.  The call is then bound by the
\* loader and the callee's frame is set up.
Enter(t, sym, a, S, ld, tbl, bld) ==
    LET tb == IF sym = "tcsetattr" /\ a.p # NULL
              THEN [S.tbuf EXCEPT ![a.p] = RawTermios] ELSE S.tbuf
        wb == IF sym = "ioctl" /\ a.request = "TIOCSWINSZ" /\ a.p # NULL
              THEN [S.wbuf EXCEPT ![a.p] = AltWinsize] ELSE S.wbuf
        r  == Resolve(sym, ld, tbl)
        f  == [pc |-> IF r.image = "libc" THEN "libc" ELSE Entry(r.func, bld),
               sym |-> sym, image |-> r.image, func |-> r.func,
               fd |-> a.fd, p |-> a.p, request |-> a.request,
               optional_actions |-> a.optional_actions,
               ws |-> NULL, vaRead |-> FALSE, ret |-> 0,
               errno |-> S.frame[t].errno, afterLoad |-> ld, overlapped |-> FALSE,
               pre_t |-> tb[t], pre_w |-> wb[t]]
    IN  [S EXCEPT !.frame[t] = f, !.tbuf = tb, !.wbuf = wb]

Args(fd, p, request, optional_actions) ==
    [fd |-> fd, p |-> p, request |-> request, optional_actions |-> optional_actions]

(* ------------------------------- actions ------------------------------- *)
Init ==
    /\ build \in {"verbose", "silent"}
    /\ loaded = FALSE
    /\ table = {}
    /\ installs = 0
    /\ err = <<>>
    /\ frame = [t \in Threads |-> IdleFrame]
    /\ tbuf = [t \in Threads |-> JunkTermios]
    /\ wbuf = [t \in Threads |-> JunkWinsize]
    /\ calls = 0
    /\ queries = 0

\* The loader maps the library: it installs the __interpose section and runs
\* the constructor.  An image is mapped once.
Load ==
    /\ ~loaded
    /\ loaded' = TRUE
    /\ table' = interposers
    /\ installs' = installs + 1
    /\ err' = IF build = "verbose" THEN faketty_init(err) ELSE faketty_init_silent(err)
    /\ UNCHANGED <<build, frame, tbuf, wbuf, calls, queries>>

\* what every call leaves alone
Frame == UNCHANGED <<build, loaded, table, installs>>

\* the call counters after a call that set up frame f
Logged(f) ==
    /\ calls' = calls + 1
    /\ queries' = queries + (IF f.func = "fake_isatty" THEN 1 ELSE 0)

InFlight(t) == frame[t].pc \notin {"idle", "done"}

\* thread t calls sym and the callee runs to its return
Call(t, sym, a) ==
    /\ LET S == Run(t, Enter(t, sym, a, State(frame, tbuf, wbuf, err), loaded, table, build))
       IN  /\ frame' = S.frame
           /\ tbuf' = S.tbuf
           /\ wbuf' = S.wbuf
           /\ err' = S.err
           /\ Logged(S.frame[t])
    /\ Frame

\* the host may make another call
Ready(t, max) == calls < max /\ frame[t].pc \in {"idle", "done"}

isatty(fd) ==
    /\ Ready(Main, MaxCalls)
    /\ Call(Main, "isatty", Args(fd, NULL, "none", "none"))

tcgetattr(fd, termios_p) ==
    /\ Ready(Main, MaxCalls)
    /\ Call(Main, "tcgetattr", Args(fd, termios_p, "none", "none"))

tcsetattr(fd, optional_actions, termios_p) ==
    /\ Ready(Main, MaxCalls)
    /\ Call(Main, "tcsetattr", Args(fd, termios_p, "none", optional_actions))

ioctl(fd, request, arg) ==
    /\ Ready(Main, MaxCalls)
    /\ Call(Main, "ioctl", Args(fd, arg, request, "none"))

Next ==
    \/ Load
    \/ \E fd \in Fds : isatty(fd)
    \/ \E fd \in Fds, p \in {NULL, Main} : tcgetattr(fd, p)
    \/ \E fd \in Fds, oa \in OptionalActions, p \in {NULL, Main} : tcsetattr(fd, oa, p)
    \/ \E fd \in Fds, req \in Requests, p \in {NULL, Main} : ioctl(fd, req, p)

Spec == Init /\ [][Next]_vars

(* --------------------- several threads, by statement ------------------- *)
\* the process after the loader has mapped the library (verbose build)
InitMT ==
    /\ build = "verbose"
    /\ loaded = TRUE
    /\ table = interposers
    /\ installs = 1
    /\ err = faketty_init(<<>>)
    /\ frame = [t \in Threads |-> IdleFrame]
    /\ tbuf = [t \in Threads |-> JunkTermios]
    /\ wbuf = [t \in Threads |-> JunkWinsize]
    /\ calls = 0
    /\ queries = 0

\* thread t calls sym; the callee has not run yet.  overlapped records, for
\* each call, whether another thread's call was in progress during it.
MT_Call(t, sym, a) ==
    /\ LET S == Enter(t, sym, a, State(frame, tbuf, wbuf, err), loaded, table, build)
       IN  /\ frame' = [u \in Threads |->
                          IF u = t
                          THEN [S.frame[t] EXCEPT !.overlapped = \E v \in Threads : InFlight(v)]
                          ELSE [S.frame[u] EXCEPT !.overlapped = @ \/ InFlight(u)]]
           /\ tbuf' = S.tbuf
           /\ wbuf' = S.wbuf
           /\ err' = S.err
           /\ Logged(S.frame[t])
    /\ Frame

\* thread t executes the next statement of its call
MT_Step(t) ==
    /\ LET S == Step(t, State(frame, tbuf, wbuf, err))
       IN  /\ frame' = S.frame
           /\ tbuf' = S.tbuf
           /\ wbuf' = S.wbuf
           /\ err' = S.err
    /\ UNCHANGED <<calls, queries>>
    /\ Frame

MT_call_isatty(t, fd) ==
    /\ Ready(t, MaxCallsMT)
    /\ MT_Call(t, "isatty", Args(fd, NULL, "none", "none"))

MT_call_tcgetattr(t, fd, termios_p) ==
    /\ Ready(t, MaxCallsMT)
    /\ MT_Call(t, "tcgetattr", Args(fd, termios_p, "none", "none"))

MT_call_tcsetattr(t, fd, optional_actions, termios_p) ==
    /\ Ready(t, MaxCallsMT)
    /\ MT_Call(t, "tcsetattr", Args(fd, termios_p, "none", optional_actions))

MT_call_ioctl(t, fd, request, arg) ==
    /\ Ready(t, MaxCallsMT)
    /\ MT_Call(t, "ioctl", Args(fd, arg, request, "none"))

MT_fake_isatty(t) ==
    /\ InFlight(t) /\ frame[t].func = "fake_isatty"
    /\ MT_Step(t)

MT_tcgetattr(t) ==
    /\ InFlight(t) /\ frame[t].func = "tcgetattr"
    /\ MT_Step(t)

MT_tcsetattr(t) ==
    /\ InFlight(t) /\ frame[t].func = "tcsetattr"
    /\ MT_Step(t)

MT_ioctl(t) ==
    /\ InFlight(t) /\ frame[t].func = "ioctl"
    /\ MT_Step(t)

NextMT ==
    \E t \in Threads :
        \/ \E fd \in FdsMT : MT_call_isatty(t, fd)
        \/ \E fd \in FdsMT, p \in {NULL, t} : MT_call_tcgetattr(t, fd, p)
        \/ \E fd \in FdsMT, oa \in OptionalActions, p \in {NULL, t} :
               MT_call_tcsetattr(t, fd, oa, p)
        \/ \E fd \in FdsMT, req \in Requests, p \in {NULL, t} :
               MT_call_ioctl(t, fd, req, p)
        \/ MT_fake_isatty(t)
        \/ MT_tcgetattr(t)
        \/ MT_tcsetattr(t)
        \/ MT_ioctl(t)

SpecMT == InitMT /\ [][NextMT]_vars

(* ----------------------------- properties ------------------------------ *)
\* the record section 4.3 documents, field by field
DocumentedTermios ==
    [c_iflag |-> {"ICRNL", "IXON"},
     c_oflag |-> {"OPOST", "ONLCR"},
     c_cflag |-> {"CS8", "CREAD", "CLOCAL"},
     c_lflag |-> {"ISIG", "ICANON", "ECHO", "ECHOE", "ECHOK"},
     c_cc |-> [s \in CcSlots |->
                 CASE s = "VINTR" -> 3 [] s = "VQUIT" -> 28 [] s = "VERASE" -> 127
                   [] s = "VKILL" -> 21 [] s = "VEOF" -> 4 [] s = "VSTART" -> 17
                   [] s = "VSTOP" -> 19 [] s = "VSUSP" -> 26 [] OTHER -> 0],
     c_ispeed |-> 38400, c_ospeed |-> 38400]

\* the geometry section 3 documents
DocumentedWinsize == [ws_row |-> 24, ws_col |-> 80, ws_xpixel |-> 0, ws_ypixel |-> 0]

\* the four entry points section 6 names, each with its responder
Responder ==
    [isatty |-> "fake_isatty", tcgetattr |-> "tcgetattr",
     tcsetattr |-> "tcsetattr", ioctl |-> "ioctl"]

\* thread t's last call has returned and was answered by responder func
Answered(t, func) ==
    /\ frame[t].pc = "done"
    /\ frame[t].image = "faketty"
    /\ frame[t].func = func

\* thread t's own buffers are as they were when its last call was made
Untouched(t) == tbuf[t] = frame[t].pre_t /\ wbuf[t] = frame[t].pre_w

\* C1: tcsetattr returns 0 for every descriptor, action selector and request
\* pointer (null included) and changes nothing; every tcgetattr with a
\* non-null buffer, before or after any tcsetattr, leaves the canonical record.
C1_SetAcknowledgedAndDiscarded ==
    \A t \in Threads :
        /\ Answered(t, "tcsetattr") => frame[t].ret = 0 /\ Untouched(t)
        /\ Answered(t, "tcgetattr") /\ frame[t].p # NULL =>
               tbuf[frame[t].p] = DocumentedTermios

\* a tcgetattr has answered into the buffer that held the raw-mode request of
\* an earlier tcsetattr (only a tcsetattr call puts a raw-mode record there)
C1_Witness ==
    /\ Answered(Main, "tcgetattr")
    /\ frame[Main].p # NULL
    /\ frame[Main].pre_t = RawTermios
    /\ frame[Main].ret = 0

\* C2 (as claimed): tcgetattr with a null pointer returns -1 with the
\* invalid-argument error indication (errno = EINVAL) and writes nothing.
C2_NullFailsWithEINVAL ==
    \A t \in Threads :
        Answered(t, "tcgetattr") /\ frame[t].p = NULL =>
            /\ frame[t].ret = -1
            /\ frame[t].errno = "EINVAL"
            /\ Untouched(t)

\* C3: tcgetattr with a non-null buffer returns 0 and leaves exactly the
\* documented record, whatever the descriptor and whatever the buffer held.
C3_GetFillsDocumentedRecord ==
    \A t \in Threads :
        Answered(t, "tcgetattr") /\ frame[t].p # NULL =>
            /\ frame[t].ret = 0
            /\ tbuf[frame[t].p].c_iflag = {"ICRNL", "IXON"}
            /\ tbuf[frame[t].p].c_oflag = {"OPOST", "ONLCR"}
            /\ tbuf[frame[t].p].c_cflag = {"CS8", "CREAD", "CLOCAL"}
            /\ tbuf[frame[t].p].c_lflag = {"ISIG", "ICANON", "ECHO", "ECHOE", "ECHOK"}
            /\ tbuf[frame[t].p].c_cc = DocumentedTermios.c_cc
            /\ tbuf[frame[t].p].c_ispeed = 38400
            /\ tbuf[frame[t].p].c_ospeed = 38400

\* a tcgetattr on a negative descriptor has answered into a buffer that held
\* junk in every field, and a second one into the record the first one left
C3_Witness ==
    /\ Answered(Main, "tcgetattr")
    /\ frame[Main].p # NULL
    /\ frame[Main].fd < 0
    /\ frame[Main].pre_t = DocumentedTermios
    /\ tbuf[Main] = frame[Main].pre_t

\* C4: ioctl returns 0 always; TIOCGWINSZ with a non-null buffer leaves
\* 24 x 80 x 0 x 0; TIOCGWINSZ with a null buffer writes nothing; any other
\* request neither fetches the variant argument nor writes.
C4_IoctlContract ==
    \A t \in Threads :
        Answered(t, "ioctl") =>
            /\ frame[t].ret = 0
            /\ frame[t].request = "TIOCGWINSZ" /\ frame[t].p # NULL =>
                   /\ wbuf[frame[t].p].ws_row = 24
                   /\ wbuf[frame[t].p].ws_col = 80
                   /\ wbuf[frame[t].p].ws_xpixel = 0
                   /\ wbuf[frame[t].p].ws_ypixel = 0
            /\ frame[t].request = "TIOCGWINSZ" /\ frame[t].p = NULL => Untouched(t)
            /\ frame[t].request # "TIOCGWINSZ" => ~frame[t].vaRead /\ Untouched(t)

\* an ioctl with another request code and a non-null argument has returned
C4_Witness ==
    /\ Answered(Main, "ioctl")
    /\ frame[Main].request = "FIONREAD"
    /\ frame[Main].p # NULL
    /\ wbuf[Main] = JunkWinsize

\* C5: fake_isatty returns 1 for every descriptor, whatever came before.
C5_IsattyAlwaysTrue ==
    \A t \in Threads : Answered(t, "fake_isatty") => frame[t].ret = 1

\* fake_isatty has answered for a negative descriptor after earlier calls
C5_Witness ==
    /\ Answered(Main, "fake_isatty")
    /\ frame[Main].fd < 0
    /\ calls >= 3
    /\ queries >= 2

C7_TableInstalledOnce ==
    /\ ~loaded => table = {} /\ installs = 0
    /\ loaded => table = interposers /\ installs = 1
    /\ \A t \in Threads :
           frame[t].pc = "done" =>
               /\ frame[t].afterLoad => frame[t].image = "faketty"
               /\ ~frame[t].afterLoad => frame[t].image = "libc"

\* the library is loaded now, and the host's last call, an isatty made before
\* the load, was answered by libc
C7_Witness ==
    /\ loaded
    /\ frame[Main].pc = "done"
    /\ ~frame[Main].afterLoad
    /\ frame[Main].image = "libc"
    /\ frame[Main].sym = "isatty"

\* one whole line: a single write of all of text, which ends in a newline
Line(text) == [text |-> text, n |-> Len(text)]

\* C8: verbose build: descriptor 2 holds the load line first and then one line
\* per fake_isatty call, 1 + n lines after load, and no other call writes;
\* silent build: nothing is ever written.
C8_DiagnosticLines ==
    /\ build = "verbose" =>
           /\ Len(err) = (IF loaded THEN 1 ELSE 0) + queries
           /\ loaded => err[1] = Line(LoadedMsg)
           /\ \A i \in 2 .. Len(err) : err[i] = Line(IsattyMsg)
    /\ build = "silent" => err = <<>>

\* verbose build: two fake_isatty calls mixed with other calls, the last one
\* a tcsetattr
C8_Witness ==
    /\ build = "verbose"
    /\ queries = 2
    /\ calls = 4
    /\ Answered(Main, "tcsetattr")
    /\ Len(err) = 3

\* thread t's last call, run alone from the buffers it was made with
Solo(t) ==
    Run(t, State([u \in Threads |->
                     IF u = t
                     THEN [frame[t] EXCEPT !.pc = Entry(frame[t].func, build),
                                           !.ret = 0, !.ws = NULL, !.vaRead = FALSE]
                     ELSE IdleFrame],
                 [tbuf EXCEPT ![t] = frame[t].pre_t],
                 [wbuf EXCEPT ![t] = frame[t].pre_w],
                 <<>>))

\* C9: under every interleaving of the threads' calls, each call returns what
\* it returns when run alone and leaves its thread's buffers as it does then.
C9_SameAsAlone ==
    \A t \in Threads :
        frame[t].pc = "done" =>
            LET alone == Solo(t) IN
            /\ frame[t].ret = alone.frame[t].ret
            /\ tbuf[t] = alone.tbuf[t]
            /\ wbuf[t] = alone.wbuf[t]

\* two calls that ran at the same time have both returned: a window-size
\* query and an attribute query, each with a buffer
C9_Witness ==
    \E t, u \in Threads :
        /\ t # u
        /\ Answered(t, "ioctl") /\ frame[t].request = "TIOCGWINSZ" /\ frame[t].p # NULL
        /\ frame[t].overlapped
        /\ Answered(u, "tcgetattr") /\ frame[u].p # NULL
        /\ frame[u].overlapped

\* C10: every TIOCGWINSZ with a non-null buffer yields 24 rows and 80 columns,
\* also after other ioctl requests and after tcsetattr calls.
C10_GeometryFixed ==
    \A t \in Threads :
        Answered(t, "ioctl") /\ frame[t].request = "TIOCGWINSZ" /\ frame[t].p # NULL =>
            wbuf[frame[t].p] = DocumentedWinsize

\* a TIOCGWINSZ has answered into the buffer that carried the 50 x 132
\* geometry of an earlier TIOCSWINSZ (only that request puts it there)
C10_Witness ==
    /\ Answered(Main, "ioctl")
    /\ frame[Main].request = "TIOCGWINSZ"
    /\ frame[Main].p # NULL
    /\ frame[Main].pre_w = AltWinsize
    /\ wbuf[Main].ws_row = 24

=============================================================================
